---- MODULE Spec2Model ----
(***************************************************************************)
(* Model of the adaptive traffic light timing engine,                      *)
(* app/services/traffic_calculator.py (class TrafficCalculator).           *)
(*                                                                         *)
(* Number representation.  The source computes the fractional green times  *)
(* in binary floating point and rounds them with round().  Here the same   *)
(* quantities are exact rationals: the sequence green_times holds          *)
(* numerators over the common positive denominator scale, so lane i has    *)
(* the green time green_times[i] / scale.  The two evaluations round to    *)
(* the same integers except when the exact value lies half-way between two *)
(* integers, where the outcome of the source depends on the accumulated    *)
(* floating point error.  The demand vectors of the model are therefore    *)
(* the ones without such a half-way value (RoundsExactly).                 *)
(***************************************************************************)
EXTENDS Integers, Sequences, FiniteSets, TLC

(***************************************************************************)
(* Bounds of the model.                                                    *)
(***************************************************************************)
\* longest demand vector offered to the engine (valid vectors have length 4)
MaxLen == 5
\* largest per-lane vehicle count offered to the engine
MaxCount == 200

(***************************************************************************)
(* Program constants.                                                      *)
(***************************************************************************)
YELLOW_LIGHT_TIME == 5
num_lanes == 4
\* the literal 100 of "if total_cars <= 100"
BaseThreshold == 100
\* the literal 10 of "(total_cars - 100) // 10" and "increments * 10"
IncrementStep == 10
\* the literal 180 of "min(green_cycle_time, 180)"
MaxCycleTime == 180

Lanes == 1..num_lanes

\* TrafficCalculator() and TrafficCalculator(min_time=20, max_time=80,
\* base_cycle_time=100), the two constructions made by the test-suite
Configs ==
    { [min_time |-> 15, max_time |-> 90, base_cycle_time |-> 120],
      [min_time |-> 20, max_time |-> 80, base_cycle_time |-> 100] }

\* other constructions the constructor accepts: a ceiling of 40 s, under
\* which two lanes cannot take the budget the fixed lanes leave, and a base
\* cycle above the 180 s of Step 1
OtherConfigs ==
    { [min_time |-> 15, max_time |-> 40, base_cycle_time |-> 120],
      [min_time |-> 15, max_time |-> 90, base_cycle_time |-> 200] }

(***************************************************************************)
(* Arithmetic helpers.                                                     *)
(***************************************************************************)
RECURSIVE SumSeq(_)
SumSeq(s) == IF s = <<>> THEN 0 ELSE Head(s) + SumSeq(Tail(s))

RECURSIVE SumOver(_, _)
SumOver(f, S) ==
    IF S = {} THEN 0
    ELSE LET i == CHOOSE x \in S : TRUE IN f[i] + SumOver(f, S \ {i})

Min2(a, b) == IF a <= b THEN a ELSE b

Abs(n) == IF n < 0 THEN -n ELSE n

RECURSIVE Gcd(_, _)
Gcd(a, b) == IF b = 0 THEN Abs(a) ELSE Gcd(b, a % Abs(b))

\* the exact rationals num[i]/den, reduced to lowest common terms
Normalize(num, den) ==
    LET RECURSIVE GcdAll(_, _)
        GcdAll(g, k) == IF k = 0 THEN g ELSE GcdAll(Gcd(g, num[k]), k - 1)
        g == GcdAll(den, Len(num))
    IN  [num |-> [i \in 1..Len(num) |-> num[i] \div g], den |-> den \div g]

\* Python's round() of the exact rational n/d, d > 0: the nearest integer,
\* the even one when n/d lies half-way
PyRound(n, d) ==
    LET q == n \div d
        r == n % d
    IN  IF 2 * r < d THEN q
        ELSE IF 2 * r > d THEN q + 1
        ELSE IF q % 2 = 0 THEN q ELSE q + 1

(***************************************************************************)
(* calculate_green_times, stage by stage.  self is the calculator's        *)
(* configuration [min_time, max_time, base_cycle_time].                    *)
(***************************************************************************)
NoError == "none"
LengthError == "Lane counts must contain exactly 4 values"
NegativeError == "Lane counts cannot be negative"

\* the two input checks made in the other order: negative counts first
InputErrorNegativeFirst(lane_counts) ==
    IF \E i \in 1..Len(lane_counts) : lane_counts[i] < 0 THEN NegativeError
    ELSE IF Len(lane_counts) # 4 THEN LengthError
    ELSE NoError

\* the two input checks, in the order the source makes them
InputError(lane_counts) ==
    IF Len(lane_counts) # 4 THEN LengthError
    ELSE IF \E i \in 1..Len(lane_counts) : lane_counts[i] < 0 THEN NegativeError
    ELSE NoError

total_yellow_time == num_lanes * YELLOW_LIGHT_TIME

\* Step 1 with a minimal cycle of 4 x min_time when no lane is above min_time
GreenCycleTimeMinimalCycle(self, lane_counts) ==
    LET total_cars == SumSeq(lane_counts)
    IN  IF \A i \in 1..Len(lane_counts) : lane_counts[i] <= self.min_time
        THEN num_lanes * self.min_time
        ELSE IF total_cars <= BaseThreshold THEN self.base_cycle_time
        ELSE LET increments == (total_cars - BaseThreshold) \div IncrementStep
             IN  Min2(self.base_cycle_time + increments * IncrementStep, MaxCycleTime)

\* Step 1: the green-phase cycle time
GreenCycleTime(self, lane_counts) ==
    LET total_cars == SumSeq(lane_counts)
    IN  IF total_cars <= BaseThreshold THEN self.base_cycle_time
        ELSE LET increments == (total_cars - BaseThreshold) \div IncrementStep
             IN  Min2(self.base_cycle_time + increments * IncrementStep, MaxCycleTime)

\* the lanes with a count above min_time; the others are the fixed lanes
AdjustableLanes(self, lane_counts) ==
    {i \in Lanes : lane_counts[i] > self.min_time}

\* Step 2: green_times_raw, as numerators over RawScale(lane_counts)
RawScale(lane_counts) ==
    IF SumSeq(lane_counts) = 0 THEN 1 ELSE SumSeq(lane_counts)

GreenTimesRaw(self, lane_counts, G) ==
    LET rem_time == G - self.min_time * num_lanes
    IN  [i \in Lanes |->
            IF lane_counts[i] <= self.min_time
            THEN self.min_time * RawScale(lane_counts)
            ELSE self.min_time * RawScale(lane_counts)
                 + (lane_counts[i] - self.min_time) * rem_time]

\* Step 3: the proportional allocation of the adjustable lanes
ProportionalAllocation(self, lane_counts, G) ==
    LET adj == AdjustableLanes(self, lane_counts)
        raw == GreenTimesRaw(self, lane_counts, G)
        \* every fixed lane holds exactly min_time
        fixed_sum == (num_lanes - Cardinality(adj)) * self.min_time
        adjustable_cycle_time == G - fixed_sum
        adjustable_raw_sum == SumOver(raw, adj)
    IN  IF adjustable_raw_sum > 0
        THEN Normalize([i \in Lanes |->
                          IF i \in adj THEN raw[i] * adjustable_cycle_time
                          ELSE self.min_time * adjustable_raw_sum],
                       adjustable_raw_sum)
        ELSE Normalize(raw, RawScale(lane_counts))

\* Step 4, one pass of the while loop over gt = [num, den]: the lanes above
\* max_time are capped, and the excess is shared equally by the other
\* adjustable lanes.  again tells whether the loop makes another pass.
EnforceMaxPass(self, adj, gt) ==
    LET cap == self.max_time * gt.den
        over == {i \in adj : gt.num[i] > cap}
        under_max_lanes == adj \ over
        excess_time == SumOver([i \in Lanes |-> gt.num[i] - cap], over)
        capped == [i \in Lanes |-> IF i \in over THEN cap ELSE gt.num[i]]
        n == Cardinality(under_max_lanes)
    IN  IF excess_time > 0 /\ under_max_lanes # {}
        THEN [again |-> TRUE,
              gt |-> Normalize([i \in Lanes |->
                                  IF i \in under_max_lanes
                                  THEN capped[i] * n + excess_time
                                  ELSE capped[i] * n],
                               gt.den * n)]
        ELSE [again |-> FALSE, gt |-> Normalize(capped, gt.den)]

\* Step 5: rounding
RoundAll(gt) == [i \in Lanes |-> PyRound(gt.num[i], gt.den)]

\* Step 5 without the correction of the last lane
BalanceLastSkipped(rounded, G) == rounded

\* Step 5: the difference to the cycle time goes to the last lane
BalanceLast(rounded, G) ==
    LET diff == G - SumSeq(rounded)
    IN  [rounded EXCEPT ![num_lanes] = @ + diff]

\* Step 6: the cycle time returned
TotalCycleTime(G) == G + total_yellow_time

\* get_fallback_times without the yellow phases in the cycle time
get_fallback_times_green_only(self) ==
    LET green == [i \in Lanes |-> self.max_time]
    IN  [green_times |-> green, cycle_time |-> SumSeq(green)]

\* get_fallback_times
get_fallback_times(self) ==
    LET green == [i \in Lanes |-> self.max_time]
    IN  [green_times |-> green,
         cycle_time |-> SumSeq(green) + 4 * YELLOW_LIGHT_TIME]

\* validate_calculation: the bounds, the sum against the cycle time less the
\* yellow phases, and the order of the lanes i < j with a 2 s tolerance
validate_calculation(self, lane_counts, green_times, cycle_time) ==
    IF \E i \in 1..Len(green_times) :
           green_times[i] < self.min_time \/ green_times[i] > self.max_time
    THEN FALSE
    ELSE IF SumSeq(green_times) # cycle_time - Len(lane_counts) * YELLOW_LIGHT_TIME
    THEN FALSE
    ELSE ~ \E i \in 1..Len(lane_counts) : \E j \in (i + 1)..Len(lane_counts) :
              /\ lane_counts[i] > lane_counts[j]
              /\ green_times[i] < green_times[j]
              /\ green_times[j] - green_times[i] > 2

\* the wrapper's test without the is_offline flag
FallbackRequestedIgnoresOffline(lane_counts, none, off) ==
    none \/ Len(lane_counts) = 0

\* the wrapper's test before any calculation: offline, None or empty
FallbackRequested(lane_counts, none, off) ==
    off \/ none \/ Len(lane_counts) = 0

\* a wrapper without the try/except around the calculation
CatchesNothing(method) == FALSE

\* the wrapper's "except Exception" catches what calculate_green_times raises
CatchesException(method) == method = "calculate_green_times_with_fallback"

\* a call that leaves a longer base cycle behind on the calculator
SelfAfterCallRaisesBase(self) ==
    [self EXCEPT !.base_cycle_time = @ + 10]

\* a call that leaves a lower max_time behind on the calculator
SelfAfterCallLowersMax(self) ==
    [self EXCEPT !.max_time = @ - 5]

\* locals kept on the calculator: a call reads those of the first caller
\* while that caller's call is in progress
LocalsOnSelf(frames, c) ==
    IF frames[1].pc \in {"enforce", "round"} THEN frames[1] ELSE frames[c]

\* the calculator's attributes after a step of any method: none assigns to
\* self.min_time, self.max_time or self.base_cycle_time
SelfAfterCall(self) == self

\* each call reads the locals of its own frame
Locals(frames, c) == frames[c]

(***************************************************************************)
(* ConnectivityManager: the status of one update and the history.          *)
(***************************************************************************)
\* self.max_history
max_history == 10

\* an Optional[str] argument left out
NoUrl == "None"

\* truth value of an Optional[str] in a condition: None and "" are false
Truthy(url) == url \notin {NoUrl, ""}

\* "online" if self.is_online else "offline_fallback"
ModeOf(online) == IF online THEN "online" ELSE "offline_fallback"

\* self.is_online as update_connectivity_status sets it
OverallStatus(internet_available, backend_available, url) ==
    internet_available /\ (backend_available \/ ~Truthy(url))

\* the status dict update_connectivity_status builds from the three checks;
\* net tells which of internet, backend and detection service answer
StatusOf(net, url, endpoint, time) ==
    LET internet_available == net.internet
        backend_available ==
            IF internet_available /\ Truthy(url) THEN net.backend ELSE FALSE
        detection_available ==
            IF internet_available /\ Truthy(endpoint) THEN net.detection
            ELSE FALSE
        online == OverallStatus(internet_available, backend_available, url)
    IN  [is_online |-> online,
         internet_available |-> internet_available,
         backend_available |-> backend_available,
         detection_available |-> detection_available,
         timestamp |-> time,
         mode |-> ModeOf(online)]

\* a history that drops its newest entry when it is full
AddToHistoryDropsNewest(history, status) ==
    IF Len(history) + 1 > max_history THEN history ELSE Append(history, status)

\* _add_to_history: append, then pop(0) beyond max_history entries
AddToHistory(history, status) ==
    LET appended == Append(history, status)
    IN  IF Len(appended) > max_history THEN Tail(appended) ELSE appended

(***************************************************************************)
(* The demand vectors offered to the engine.                               *)
(***************************************************************************)
\* passes of the while loop followed when deciding RoundsExactly
MaxPasses == 3

\* the green times the while loop ends with, when it ends within fuel passes
RECURSIVE FinalTimes(_, _, _, _)
FinalTimes(self, adj, gt, fuel) ==
    LET r == EnforceMaxPass(self, adj, gt)
    IN  IF r.again /\ fuel > 0 THEN FinalTimes(self, adj, r.gt, fuel - 1)
        ELSE r.gt

\* no lane's exact green time lies half-way between two integers, so that
\* round() of the floating point value is the rounding of the exact value
RoundsExactly(self, lane_counts) ==
    LET G == GreenCycleTime(self, lane_counts)
        gt == FinalTimes(self, AdjustableLanes(self, lane_counts),
                         ProportionalAllocation(self, lane_counts, G), MaxPasses)
    IN  \A i \in Lanes : 2 * (gt.num[i] % gt.den) # gt.den

\* per-lane vehicle counts of the well-formed vectors: none, few, min_time
\* and just above (15/16, 20/21 does not matter to the 20-second
\* configuration: 25 and 26 are above it), a quarter of the 100-vehicle
\* threshold and just above, and heavy traffic
LaneValues == {0, 5, 15, 16, 25, 26, 100, MaxCount}

\* counts of the vectors of any length 0..MaxLen, negative counts included
ProbeValues == {-1, 0, 30}

\* the demand vectors of the test-suite
TestDemands ==
    { <<25, 22, 28, 24>>, <<8, 12, 6, 10>>, <<45, 38, 52, 41>>,
      <<60, 15, 18, 12>>, <<100, 5, 5, 5>>, <<0, 0, 20, 30>>,
      <<25, 25, 25, 25>>, <<26, 25, 25, 25>>, <<30, 25, 35, 20>>,
      <<40, 20, 30, 10>>, <<50, 45, 25, 15>>, <<35, 35, 20, 30>>,
      <<10, 20, 30>>, <<10, 20, 30, 40, 50>>, <<10, -5, 20, 30>> }

AllDemands ==
    [Lanes -> LaneValues] \cup TestDemands
        \cup UNION {[1..n -> ProbeValues] : n \in 0..MaxLen}

Demands(self) ==
    {d \in AllDemands : InputError(d) # NoError \/ RoundsExactly(self, d)}

(***************************************************************************)
(* State.                                                                  *)
(***************************************************************************)
VARIABLES
    min_time, max_time, base_cycle_time,  \* self.*, set by __init__
    pc,                   \* "idle", "enforce", "round", "returned", "raised",
                          \* "validated"
    entry,                \* the method the caller invoked
    lane_counts,          \* argument lane_counts
    lane_counts_is_none,  \* the argument is None
    is_offline,           \* argument is_offline
    green_cycle_time,     \* local green_cycle_time
    adjustable_lanes,     \* local adjustable_lanes
    green_times, scale,   \* local green_times: lane i holds green_times[i]/scale
    iterations,           \* passes of the while loop the call has made
    green_times_rounded,  \* returned green times
    total_cycle_time,     \* returned cycle time
    is_using_fallback,    \* returned third element of the wrapper
    error,                \* message of the ValueError raised to the caller
    validation,           \* validate_calculation: arguments green_times and
                          \* cycle_time, and the boolean returned
    calls,                \* the frames of the calls that run concurrently
    is_online,            \* ConnectivityManager.is_online
    connection_status_history,  \* ConnectivityManager.connection_status_history
    backend_url,          \* argument backend_url of update_connectivity_status
    detection_endpoint,   \* argument detection_endpoint
    network,              \* which of internet, backend, detection answer
    network_changes,      \* number of changes of the network so far
    now,                  \* the clock read by _get_current_time
    returned_statuses     \* the dicts update_connectivity_status returned,
                          \* in call order

vars == <<min_time, max_time, base_cycle_time, pc, entry, lane_counts,
          lane_counts_is_none, is_offline, green_cycle_time, adjustable_lanes,
          green_times, scale, iterations, green_times_rounded,
          total_cycle_time, is_using_fallback, error, validation, calls,
          is_online,
          connection_status_history, backend_url, detection_endpoint, network,
          network_changes, now, returned_statuses>>

config == <<min_time, max_time, base_cycle_time>>
connectivity == <<is_online, connection_status_history, backend_url,
                  detection_endpoint, network, network_changes, now,
                  returned_statuses>>
locals == <<green_cycle_time, adjustable_lanes, green_times, scale,
            iterations>>
results == <<green_times_rounded, total_cycle_time, is_using_fallback, error>>

Self == [min_time |-> min_time, max_time |-> max_time,
         base_cycle_time |-> base_cycle_time]

Direct == "calculate_green_times"
Wrapper == "calculate_green_times_with_fallback"

\* no step of a method assigns to the attributes of self
KeepSelf ==
    /\ min_time' = SelfAfterCall(Self).min_time
    /\ max_time' = SelfAfterCall(Self).max_time
    /\ base_cycle_time' = SelfAfterCall(Self).base_cycle_time

NoValidation == [green_times |-> <<>>, cycle_time |-> 0, result |-> FALSE]

\* the frame of a call: its arguments, locals and results
IdleFrame ==
    [pc |-> "idle", entry |-> "none", lane_counts |-> <<>>,
     is_offline |-> FALSE, green_cycle_time |-> 0, adjustable_lanes |-> {},
     green_times |-> <<>>, scale |-> 1, green_times_rounded |-> <<>>,
     total_cycle_time |-> 0, is_using_fallback |-> FALSE, error |-> NoError,
     validation |-> NoValidation, calls_made |-> 0]

\* the concurrent callers, and the number of calls each of them makes
Callers == 1..2
MaxCalls == 2

NoFrame ==
    /\ entry = "none"
    /\ lane_counts = <<>>
    /\ lane_counts_is_none = FALSE
    /\ is_offline = FALSE
    /\ green_cycle_time = 0
    /\ adjustable_lanes = {}
    /\ green_times = <<>>
    /\ scale = 1
    /\ iterations = 0
    /\ green_times_rounded = <<>>
    /\ total_cycle_time = 0
    /\ is_using_fallback = FALSE
    /\ error = NoError
    /\ validation = NoValidation

\* the URLs the deployment passes to every update_connectivity_status
BackendUrls == {NoUrl, "", "http://backend"}
DetectionEndpoints == {NoUrl, "http://detector"}

\* ConnectivityManager.__init__, with every service answering, in a
\* deployment that passes url and endpoint to update_connectivity_status
InitManager(url, endpoint) ==
    /\ is_online = TRUE
    /\ connection_status_history = <<>>
    /\ backend_url = url
    /\ detection_endpoint = endpoint
    /\ network = [internet |-> TRUE, backend |-> TRUE, detection |-> TRUE]
    /\ network_changes = 0
    /\ now = 1
    /\ returned_statuses = <<>>

\* the calculator after __init__ with configuration cfg, no call made
InitCalculator(cfg) ==
    /\ min_time = cfg.min_time
    /\ max_time = cfg.max_time
    /\ base_cycle_time = cfg.base_cycle_time
    /\ pc = "idle"
    /\ NoFrame
    /\ calls = [c \in Callers |-> IdleFrame]

\* __init__
Init ==
    /\ \E cfg \in Configs : InitCalculator(cfg)
    /\ InitManager(NoUrl, NoUrl)

\* the wrapper returns get_fallback_times() with the flag set
ReturnFallback ==
    /\ green_times_rounded' = get_fallback_times(Self).green_times
    /\ total_cycle_time' = get_fallback_times(Self).cycle_time
    /\ is_using_fallback' = TRUE
    /\ error' = NoError
    /\ pc' = "returned"
    /\ UNCHANGED locals

\* calculate_green_times from its entry to the while loop: the input checks
\* and Steps 1-3.  A ValueError ends the call; under the wrapper it is
\* caught and answered with the fallback times.
Enter(d) ==
    IF InputError(d) # NoError
    THEN IF CatchesException(entry')
         THEN ReturnFallback
         ELSE /\ pc' = "raised"
              /\ error' = InputError(d)
              /\ UNCHANGED <<locals, green_times_rounded, total_cycle_time,
                             is_using_fallback>>
    ELSE LET G == GreenCycleTime(Self, d)
             gt == ProportionalAllocation(Self, d, G)
         IN  /\ green_cycle_time' = G
             /\ adjustable_lanes' = AdjustableLanes(Self, d)
             /\ green_times' = gt.num
             /\ scale' = gt.den
             /\ iterations' = 0
             /\ pc' = "enforce"
             /\ UNCHANGED results

calculate_green_times ==
    /\ pc = "idle"
    /\ \E d \in Demands(Self) :
          /\ entry' = Direct
          /\ lane_counts' = d
          /\ UNCHANGED <<lane_counts_is_none, is_offline>>
          /\ Enter(d)
    /\ KeepSelf
    /\ UNCHANGED <<validation, calls, connectivity>>

calculate_green_times_with_fallback ==
    /\ pc = "idle"
    /\ \E d \in Demands(Self), none \in BOOLEAN, off \in BOOLEAN :
          /\ none => d = <<>>
          /\ entry' = Wrapper
          /\ lane_counts' = d
          /\ lane_counts_is_none' = none
          /\ is_offline' = off
          /\ IF FallbackRequested(d, none, off)
             THEN ReturnFallback
             ELSE Enter(d)
    /\ KeepSelf
    /\ UNCHANGED <<validation, calls, connectivity>>

\* get_fallback_times called by itself
GetFallbackTimes ==
    /\ pc = "idle"
    /\ entry' = "get_fallback_times"
    /\ ReturnFallback
    /\ KeepSelf
    /\ UNCHANGED <<lane_counts, lane_counts_is_none, is_offline, validation,
                   calls, connectivity>>

\* the arguments validate_calculation is called with: demands with and
\* without an order between the lanes; green times at min_time and 2 s and
\* 3 s above, and vectors outside the bounds; the cycle time with the yellow
\* phases, one second short of it, and without them
ValidationDemands == [Lanes -> {10, 30}]

ValidationGreenTimes(self) ==
    [Lanes -> {self.min_time, self.min_time + 2, self.min_time + 3}]
        \cup { <<self.min_time - 1, self.min_time, self.min_time, self.min_time>>,
               <<self.min_time, self.min_time, self.min_time, self.max_time + 1>>,
               <<self.max_time, self.max_time, self.max_time, self.max_time>> }

ValidationCycleTimes(green) ==
    { SumSeq(green) + 4 * YELLOW_LIGHT_TIME,
      SumSeq(green) + 4 * YELLOW_LIGHT_TIME - 1,
      SumSeq(green) }

\* validate_calculation called by itself
ValidateCalculation ==
    /\ pc = "idle"
    /\ \E d \in ValidationDemands, g \in ValidationGreenTimes(Self) :
          \E c \in ValidationCycleTimes(g) :
             /\ lane_counts' = d
             /\ validation' = [green_times |-> g, cycle_time |-> c,
                               result |-> validate_calculation(Self, d, g, c)]
    /\ entry' = "validate_calculation"
    /\ pc' = "validated"
    /\ KeepSelf
    /\ UNCHANGED <<lane_counts_is_none, is_offline, locals, results, calls,
                   connectivity>>

\* the passes of the while loop followed in one call
MaxIterations == 12

\* Step 4: one pass of the while loop
EnforceMax ==
    /\ pc = "enforce"
    /\ iterations < MaxIterations
    /\ iterations' = iterations + 1
    /\ LET r == EnforceMaxPass(Self, adjustable_lanes,
                               [num |-> green_times, den |-> scale])
       IN  /\ green_times' = r.gt.num
           /\ scale' = r.gt.den
           /\ pc' = IF r.again THEN "enforce" ELSE "round"
    /\ KeepSelf
    /\ UNCHANGED <<entry, lane_counts, lane_counts_is_none, is_offline,
                   green_cycle_time, adjustable_lanes, results, validation,
                   calls, connectivity>>

\* Steps 5 and 6 and the return
RoundAndReturn ==
    /\ pc = "round"
    /\ green_times_rounded' =
          BalanceLast(RoundAll([num |-> green_times, den |-> scale]),
                      green_cycle_time)
    /\ total_cycle_time' = TotalCycleTime(green_cycle_time)
    /\ is_using_fallback' = FALSE
    /\ pc' = "returned"
    /\ KeepSelf
    /\ UNCHANGED <<entry, lane_counts, lane_counts_is_none, is_offline,
                   locals, error, validation, calls, connectivity>>

\* the caller has the result (or the exception); the call's frame is gone
EndCall ==
    /\ pc \in {"returned", "raised", "validated"}
    /\ pc' = "idle"
    /\ entry' = "none"
    /\ lane_counts' = <<>>
    /\ lane_counts_is_none' = FALSE
    /\ is_offline' = FALSE
    /\ green_cycle_time' = 0
    /\ adjustable_lanes' = {}
    /\ green_times' = <<>>
    /\ scale' = 1
    /\ iterations' = 0
    /\ green_times_rounded' = <<>>
    /\ total_cycle_time' = 0
    /\ is_using_fallback' = FALSE
    /\ error' = NoError
    /\ validation' = NoValidation
    /\ UNCHANGED <<config, calls, connectivity>>

Next ==
    \/ calculate_green_times
    \/ calculate_green_times_with_fallback
    \/ GetFallbackTimes
    \/ ValidateCalculation
    \/ EnforceMax
    \/ RoundAndReturn
    \/ EndCall

Spec == Init /\ [][Next]_vars

\* __init__ with one of the other configurations
InitOtherConfig ==
    /\ \E cfg \in OtherConfigs : InitCalculator(cfg)
    /\ InitManager(NoUrl, NoUrl)

SpecOtherConfig == InitOtherConfig /\ [][Next]_vars

(***************************************************************************)
(* Calls that run concurrently on one calculator.  Every call has its own  *)
(* frame in calls; the attributes of self are the only state they share.   *)
(***************************************************************************)
sequential == <<pc, entry, lane_counts, lane_counts_is_none, is_offline,
                locals, results, validation>>

\* the demands of the junctions served concurrently: balanced, uneven and
\* heavy traffic, one heavy lane, a negative count and no counts
JunctionDemands ==
    { <<25, 25, 25, 25>>, <<45, 38, 52, 41>>, <<100, 5, 5, 5>>,
      <<0, 0, 0, 200>>, <<10, -5, 20, 30>>, <<>> }

ConcurrentDemands(self) ==
    {d \in JunctionDemands : InputError(d) # NoError \/ RoundsExactly(self, d)}

\* the frame with the fallback times returned
FallbackFrame(self, frame) ==
    [frame EXCEPT !.pc = "returned",
                  !.green_times_rounded = get_fallback_times(self).green_times,
                  !.total_cycle_time = get_fallback_times(self).cycle_time,
                  !.is_using_fallback = TRUE]

\* the frame of a call of method on demand d, at the while loop or ended:
\* the wrapper's test, the input checks and Steps 1-3
StartedFrame(self, frame, method, d, off) ==
    LET called == [frame EXCEPT !.entry = method, !.lane_counts = d,
                                !.is_offline = off,
                                !.calls_made = frame.calls_made + 1]
    IN  IF method = Wrapper /\ FallbackRequested(d, FALSE, off)
        THEN FallbackFrame(self, called)
        ELSE IF InputError(d) # NoError
        THEN IF CatchesException(method)
             THEN FallbackFrame(self, called)
             ELSE [called EXCEPT !.pc = "raised", !.error = InputError(d)]
        ELSE LET G == GreenCycleTime(self, d)
                 gt == ProportionalAllocation(self, d, G)
             IN  [called EXCEPT !.pc = "enforce",
                                !.green_cycle_time = G,
                                !.adjustable_lanes = AdjustableLanes(self, d),
                                !.green_times = gt.num,
                                !.scale = gt.den]

\* caller c calls calculate_green_times or the wrapper
ConcurrentCall(c) ==
    /\ calls[c].pc = "idle"
    /\ calls[c].calls_made < MaxCalls
    /\ \E method \in {Direct, Wrapper}, d \in ConcurrentDemands(Self),
          off \in BOOLEAN :
          /\ method = Direct => ~off
          /\ calls' = [calls EXCEPT
                          ![c] = StartedFrame(Self, calls[c], method, d, off)]
    /\ KeepSelf
    /\ UNCHANGED <<sequential, connectivity>>

\* caller c validates the times computed for a demand
ConcurrentValidate(c) ==
    /\ calls[c].pc = "idle"
    /\ calls[c].calls_made < MaxCalls
    /\ \E d \in ConcurrentDemands(Self) :
          /\ InputError(d) = NoError
          /\ LET G == GreenCycleTime(Self, d)
                 g == BalanceLast(RoundAll(FinalTimes(Self,
                          AdjustableLanes(Self, d),
                          ProportionalAllocation(Self, d, G), MaxPasses)), G)
                 t == TotalCycleTime(G)
             IN  calls' = [calls EXCEPT ![c] =
                    [@ EXCEPT !.pc = "validated",
                              !.entry = "validate_calculation",
                              !.lane_counts = d,
                              !.calls_made = @ + 1,
                              !.validation =
                                 [green_times |-> g, cycle_time |-> t,
                                  result |-> validate_calculation(Self, d, g, t)]]]
    /\ KeepSelf
    /\ UNCHANGED <<sequential, connectivity>>

\* Step 4: one pass of the while loop of caller c's call
ConcurrentEnforceMax(c) ==
    /\ calls[c].pc = "enforce"
    /\ LET frame == Locals(calls, c)
           r == EnforceMaxPass(Self, frame.adjustable_lanes,
                               [num |-> frame.green_times, den |-> frame.scale])
       IN  calls' = [calls EXCEPT ![c] =
              [@ EXCEPT !.green_times = r.gt.num,
                        !.scale = r.gt.den,
                        !.pc = IF r.again THEN "enforce" ELSE "round"]]
    /\ KeepSelf
    /\ UNCHANGED <<sequential, connectivity>>

\* Steps 5 and 6 and the return of caller c's call
ConcurrentRoundAndReturn(c) ==
    /\ calls[c].pc = "round"
    /\ LET frame == Locals(calls, c)
       IN  calls' = [calls EXCEPT ![c] =
              [@ EXCEPT !.green_times_rounded =
                           BalanceLast(RoundAll([num |-> frame.green_times,
                                                 den |-> frame.scale]),
                                       frame.green_cycle_time),
                        !.total_cycle_time =
                           TotalCycleTime(frame.green_cycle_time),
                        !.is_using_fallback = FALSE,
                        !.pc = "returned"]]
    /\ KeepSelf
    /\ UNCHANGED <<sequential, connectivity>>

\* caller c has its result; the frame is gone
ConcurrentEndCall(c) ==
    /\ calls[c].pc \in {"returned", "raised", "validated"}
    /\ calls' = [calls EXCEPT
                    ![c] = [IdleFrame EXCEPT !.calls_made = calls[c].calls_made]]
    /\ UNCHANGED <<config, sequential, connectivity>>

NextConcurrent ==
    \E c \in Callers :
        \/ ConcurrentCall(c)
        \/ ConcurrentValidate(c)
        \/ ConcurrentEnforceMax(c)
        \/ ConcurrentRoundAndReturn(c)
        \/ ConcurrentEndCall(c)

SpecConcurrent == Init /\ [][NextConcurrent]_vars

(***************************************************************************)
(* The connectivity manager: periodic update_connectivity_status calls in  *)
(* a network whose services come and go.                                   *)
(***************************************************************************)
\* the number of update_connectivity_status calls and of network changes
MaxUpdates == 12
MaxChanges == 2

\* the default calculator stays idle beside the manager
InitConnectivity ==
    /\ InitCalculator([min_time |-> 15, max_time |-> 90,
                       base_cycle_time |-> 120])
    /\ \E url \in BackendUrls, endpoint \in DetectionEndpoints :
          InitManager(url, endpoint)

\* update_connectivity_status: the three checks, self.is_online, the status
\* dict, _add_to_history and the return
update_connectivity_status ==
    /\ Len(returned_statuses) < MaxUpdates
    /\ LET status == StatusOf(network, backend_url, detection_endpoint, now)
       IN  /\ is_online' = status.is_online
           /\ connection_status_history' =
                 AddToHistory(connection_status_history, status)
           /\ returned_statuses' = Append(returned_statuses, status)
    /\ now' = now + 1
    /\ UNCHANGED <<backend_url, detection_endpoint, network, network_changes,
                   config, sequential, calls>>

\* the internet, the backend or the detection service goes away or comes
\* back
NetworkChange ==
    /\ network_changes < MaxChanges
    /\ \E service \in {"internet", "backend", "detection"} :
          network' = [network EXCEPT ![service] = ~@]
    /\ network_changes' = network_changes + 1
    /\ UNCHANGED <<is_online, connection_status_history, backend_url,
                   detection_endpoint, now, returned_statuses, config,
                   sequential, calls>>

\* get_connectivity_status
get_connectivity_status ==
    [is_online |-> is_online,
     timestamp |-> now,
     mode |-> ModeOf(is_online),
     history_available |-> Len(connection_status_history)]

\* get_fallback_mode_info: the fields that depend on the manager's state
get_fallback_mode_info ==
    [fallback_mode_active |-> ~is_online,
     reason |-> IF ~is_online THEN "Internet/detection connectivity lost"
                ELSE "N/A",
     timestamp |-> now]

NextConnectivity ==
    \/ update_connectivity_status
    \/ NetworkChange

SpecConnectivity == InitConnectivity /\ [][NextConnectivity]_vars

(***************************************************************************)
(* Properties of calculate_green_times.                                    *)
(***************************************************************************)
\* a result computed by calculate_green_times (called directly or through
\* the wrapper) is with the caller
Computed == pc = "returned" /\ ~is_using_fallback

total_cars == SumSeq(lane_counts)

\* C1: every green time returned by calculate_green_times lies in
\* [min_time, max_time], the last lane after the rounding fix-up included.
C1_GreenTimesWithinBounds ==
    Computed =>
        \A i \in Lanes :
            /\ green_times_rounded[i] >= min_time
            /\ green_times_rounded[i] <= max_time

C3_CycleTimeIsGreenSum ==
    Computed => total_cycle_time = SumSeq(green_times_rounded)

\* C4: a direct call raises exactly when the vector has not length 4 or
\* holds a negative count, the length being checked first; a vector of 4
\* non-negative counts raises nothing, and a rejected call has no allocation.
C4_InputErrorExactly ==
    (entry = Direct /\ pc # "idle") =>
        LET badLength == Len(lane_counts) # 4
            negative == \E i \in 1..Len(lane_counts) : lane_counts[i] < 0
        IN  /\ (pc = "raised") <=> (badLength \/ negative)
            /\ badLength => error = LengthError
            /\ (~badLength /\ negative) => error = NegativeError
            /\ (~badLength /\ ~negative) => error = NoError
            /\ pc = "raised" => /\ green_times_rounded = <<>>
                                /\ total_cycle_time = 0

\* a rejected vector that is both of the wrong length and negative somewhere
C4_Witness ==
    /\ entry = Direct
    /\ pc = "raised"
    /\ Len(lane_counts) # 4
    /\ \E i \in 1..Len(lane_counts) : lane_counts[i] < 0

\* C5: when every lane's demand is <= min_time, every lane gets exactly
\* min_time and the cycle time returned is 4 x min_time.
C5_AllFixedGetsMinimalCycle ==
    (Computed /\ \A i \in Lanes : lane_counts[i] <= min_time) =>
        /\ green_times_rounded = [i \in Lanes |-> min_time]
        /\ total_cycle_time = 4 * min_time

\* C6: with a total demand <= 100 and some lane above min_time, the cycle
\* time returned equals base_cycle_time.
C6_BaseCycleUpTo100 ==
    (/\ Computed
     /\ total_cars <= 100
     /\ \E i \in Lanes : lane_counts[i] > min_time) =>
        total_cycle_time = base_cycle_time

\* ceil(a / b) for b > 0
CeilDiv(a, b) == (a + b - 1) \div b

\* C7: with a total demand T > 100 (and some lane above min_time) the green
\* budget is min(base_cycle_time + 10 x ceil((T - 100) / 10), 180).
C7_CeilingIncrements ==
    (/\ Computed
     /\ total_cars > 100
     /\ \E i \in Lanes : lane_counts[i] > min_time) =>
        green_cycle_time =
            Min2(base_cycle_time + 10 * CeilDiv(total_cars - 100, 10), 180)

\* C8: the cycle time returned never exceeds 180 seconds.
C8_CycleTimeAtMost180 ==
    Computed => total_cycle_time <= 180

\* other splits of the same total over the four lanes: all on the first
\* lane, all on the last lane, and as even as possible
SameTotalSplits(T) ==
    LET q == T \div num_lanes
    IN  { <<T, 0, 0, 0>>, <<0, 0, 0, T>>, <<q, q, q, T - 3 * q>> }

WouldRaise ==
    \/ Len(lane_counts) # 4
    \/ \E i \in 1..Len(lane_counts) : lane_counts[i] < 0

AloneResult(self, d) ==
    LET G == GreenCycleTime(self, d)
        gt == FinalTimes(self, AdjustableLanes(self, d),
                         ProportionalAllocation(self, d, G), MaxPasses)
    IN  [green_times |-> BalanceLast(RoundAll(gt), G),
         cycle_time |-> TotalCycleTime(G)]

\* C12: the wrapper's flag is true exactly when is_offline is true, or the
\* demand is None or empty, or calculate_green_times raises on it; otherwise
\* the flag is false and the green times and the cycle time are those of
\* calculate_green_times for the same demand.
C12_FallbackFlagExactly ==
    (pc = "returned" /\ entry = Wrapper) =>
        /\ is_using_fallback <=>
              (is_offline \/ lane_counts_is_none \/ Len(lane_counts) = 0
                 \/ WouldRaise)
        /\ ~is_using_fallback =>
              /\ green_times_rounded = AloneResult(Self, lane_counts).green_times
              /\ total_cycle_time = AloneResult(Self, lane_counts).cycle_time

\* an online call of the wrapper that returned computed times
C12_Witness ==
    /\ pc = "returned"
    /\ entry = Wrapper
    /\ ~is_using_fallback
    /\ ~is_offline
    /\ total_cars > 100

\* C13: for every pair of lanes with demand_i > demand_j the green times
\* returned satisfy green_i >= green_j - 2.
C13_OrderWithinTolerance ==
    Computed =>
        \A i \in Lanes, j \in Lanes :
            lane_counts[i] > lane_counts[j] =>
                green_times_rounded[i] >= green_times_rounded[j] - 2

\* C14: validate_calculation accepts what calculate_green_times returns for
\* the same demand.
C14_ResultPassesValidation ==
    Computed =>
        validate_calculation(Self, lane_counts, green_times_rounded,
                             total_cycle_time)

(***************************************************************************)
(* Properties of validate_calculation.                                     *)
(***************************************************************************)
\* C15: validate_calculation returns True exactly when every green time is
\* in [min_time, max_time], the green times sum to the cycle time less 5 s
\* of yellow per lane, and green_i >= green_j - 2 for every pair of lanes
\* with demand_i > demand_j.
C15_ValidationExactly ==
    pc = "validated" =>
        (validation.result <=>
            /\ \A i \in Lanes :
                  /\ validation.green_times[i] >= min_time
                  /\ validation.green_times[i] <= max_time
            /\ SumSeq(validation.green_times) = validation.cycle_time - 4 * 5
            /\ \A i \in Lanes, j \in Lanes :
                  lane_counts[i] > lane_counts[j] =>
                     validation.green_times[i] >= validation.green_times[j] - 2)

(***************************************************************************)
(* Properties of the calculator as an object: no memory, no shared state.  *)
(***************************************************************************)
\* caller c holds the times calculate_green_times computed for it
ComputedBy(c) ==
    /\ calls[c].pc = "returned"
    /\ calls[c].entry = Direct

\* C16: calculate_green_times is deterministic and history-free: two calls
\* with the same demand on one calculator return the same green times and
\* the same cycle time, whatever calls (other demands, fallbacks,
\* validations) the calculator served before the second of them.
C16_SameDemandSameResult ==
    \A c \in Callers, e \in Callers :
        (ComputedBy(c) /\ ComputedBy(e)
            /\ calls[c].lane_counts = calls[e].lane_counts) =>
           /\ calls[c].green_times_rounded = calls[e].green_times_rounded
           /\ calls[c].total_cycle_time = calls[e].total_cycle_time

\* both callers hold the times of the same demand, the second caller after
\* an earlier call of its own
C16_Witness ==
    /\ ComputedBy(1)
    /\ ComputedBy(2)
    /\ calls[1].lane_counts = calls[2].lane_counts
    /\ calls[1].lane_counts = <<25, 25, 25, 25>>
    /\ calls[1].calls_made = 1
    /\ calls[2].calls_made = 2

\* what a call of method on demand d gives its caller when it runs alone
AloneOutcome(self, method, d, off) ==
    LET frame == StartedFrame(self, IdleFrame, method, d, off)
    IN  IF frame.pc = "enforce"
        THEN [pc |-> "returned",
              green_times |-> AloneResult(self, d).green_times,
              cycle_time |-> AloneResult(self, d).cycle_time,
              is_using_fallback |-> FALSE, error |-> NoError]
        ELSE [pc |-> frame.pc,
              green_times |-> frame.green_times_rounded,
              cycle_time |-> frame.total_cycle_time,
              is_using_fallback |-> frame.is_using_fallback,
              error |-> frame.error]

\* C17: allocation calls that run concurrently on one calculator do not
\* interfere: under every interleaving of their steps each call ends with
\* what it gives when it runs alone.
C17_ConcurrentCallsAsAlone ==
    \A c \in Callers :
        (calls[c].pc \in {"returned", "raised"}) =>
           [pc |-> calls[c].pc,
            green_times |-> calls[c].green_times_rounded,
            cycle_time |-> calls[c].total_cycle_time,
            is_using_fallback |-> calls[c].is_using_fallback,
            error |-> calls[c].error]
             = AloneOutcome(Self, calls[c].entry, calls[c].lane_counts,
                            calls[c].is_offline)

\* the second caller's call has returned computed times while the first
\* caller's call on another demand is between its while loop and its return
C17_Witness ==
    /\ calls[1].pc = "round"
    /\ calls[2].pc = "returned"
    /\ ~calls[2].is_using_fallback
    /\ calls[1].lane_counts # calls[2].lane_counts

\* C18: no operation changes min_time, max_time or base_cycle_time, and none
\* modifies the caller's demand vector, whether the call succeeds, falls
\* back or raises.
C18_ConfigAndDemandUntouched ==
    [][/\ config' = config
       /\ (pc # "idle" /\ pc' # "idle") => lane_counts' = lane_counts]_vars

\* a call has raised on the demand it was given
C18_Witness ==
    /\ pc = "raised"
    /\ error = NegativeError
    /\ lane_counts = <<10, -5, 20, 30>>
    /\ config \in {<<15, 90, 120>>, <<20, 80, 100>>}

\* C19: a lane with the largest demand receives the maximum green time of
\* the result, and no lane with a smaller demand receives strictly more
\* green time than a lane with a larger demand.
C19_LargestDemandLongestGreen ==
    Computed =>
        /\ \E i \in Lanes :
              /\ \A j \in Lanes : lane_counts[i] >= lane_counts[j]
              /\ \A j \in Lanes : green_times_rounded[i] >= green_times_rounded[j]
        /\ \A i \in Lanes, j \in Lanes :
              lane_counts[j] < lane_counts[i] =>
                 green_times_rounded[j] <= green_times_rounded[i]

\* C20: four equal demands receive four equal green times.
C20_EqualDemandsEqualTimes ==
    (Computed /\ \A i \in Lanes : lane_counts[i] = lane_counts[1]) =>
        \A i \in Lanes : green_times_rounded[i] = green_times_rounded[1]

(***************************************************************************)
(* Properties of the stages of calculate_green_times.                      *)
(***************************************************************************)
\* C22: in the allocation returned every fixed lane (demand <= min_time)
\* has exactly min_time, whatever its position and the other demands.
C22_FixedLanesGetMinTime ==
    Computed =>
        \A i \in Lanes :
            lane_counts[i] <= min_time => green_times_rounded[i] = min_time

\* the demand of the adjustable lanes of the call
AdjustableDemand == SumOver([i \in Lanes |-> lane_counts[i]], adjustable_lanes)

\* C23: before ceiling enforcement and rounding each adjustable lane i has
\* min_time + remaining * (demand_i / demand of the adjustable lanes), with
\* remaining = budget - 4 * min_time.  (green_times[i] / scale is the lane's
\* time; both sides are multiplied by scale and by the adjustable demand.)
C23_ProportionalShare ==
    [][(pc = "idle" /\ pc' = "enforce") =>
          \A i \in adjustable_lanes' :
              green_times'[i] * AdjustableDemand'
                = scale' * (min_time * AdjustableDemand'
                            + (green_cycle_time' - 4 * min_time)
                                 * lane_counts'[i])]_vars

\* the part of the budget the while loop left with no lane, times scale
Unredistributed == green_cycle_time * scale - SumSeq(green_times)

\* C24: when lanes are capped at max_time and the excess cannot go to a lane
\* under the ceiling, the budget shrinks by that remainder: the green times
\* returned sum to the budget less the remainder.
C24_BudgetShrinksByRemainder ==
    (/\ Computed
     /\ \E i \in adjustable_lanes : green_times[i] = max_time * scale
     /\ Unredistributed > 0) =>
        SumSeq(green_times_rounded) * scale = SumSeq(green_times)

\* what lane i gains in a pass of the while loop, times scale * scale'
Donation(i) == green_times'[i] * scale - green_times[i] * scale'

\* C25: in each round of ceiling enforcement the excess goes only to lanes
\* strictly below max_time with demand > min_time, each lane's share in
\* proportion to its demand.
C25_DonationsByDemand ==
    [][(pc = "enforce" /\ pc' \in {"enforce", "round"}) =>
          /\ \A i \in Lanes :
                Donation(i) > 0 =>
                   /\ green_times[i] < max_time * scale
                   /\ lane_counts[i] > min_time
          /\ \A i \in Lanes, j \in Lanes :
                (Donation(i) > 0 /\ Donation(j) > 0) =>
                   LET g == Gcd(Donation(i), Donation(j))
                   IN  (Donation(i) \div g) * lane_counts[j]
                         = (Donation(j) \div g) * lane_counts[i]]_vars

\* C26: the rounding balancer adds seconds only to lanes strictly below
\* max_time and takes seconds only from lanes strictly above min_time, and
\* leaves every lane in [min_time, max_time].
C26_BalancerKeepsBounds ==
    Computed =>
        \A i \in Lanes :
            LET rounded == PyRound(green_times[i], scale)
            IN  /\ green_times_rounded[i] > rounded =>
                      (rounded < max_time /\ green_times_rounded[i] <= max_time)
                /\ green_times_rounded[i] < rounded =>
                      (rounded > min_time /\ green_times_rounded[i] >= min_time)

\* C28: the lanes are treated alike: the permuted demand gets the same cycle
\* time and the green times permuted the same way.
C28_PermutationSymmetry ==
    Computed =>
        \A p \in Permutations(Lanes) :
            LET permuted == [i \in Lanes |-> lane_counts[p[i]]]
            IN  /\ AloneResult(Self, permuted).cycle_time = total_cycle_time
                /\ AloneResult(Self, permuted).green_times
                     = [i \in Lanes |-> green_times_rounded[p[i]]]

\* C21: for every configuration with min_time < max_time and every valid
\* demand calculate_green_times terminates: the cap-and-redistribute loop
\* makes at most 10 passes.
C21_LoopAtMostTenPasses == iterations <= 10

\* C29: for every configuration the green budget is non-decreasing in the
\* total demand (here against the valid demands of the test-suite with a
\* total not above the call's) and never below base_cycle_time.
C29_BudgetMonotone ==
    (pc \in {"enforce", "round"} \/ Computed) =>
        /\ green_cycle_time >= base_cycle_time
        /\ \A d \in TestDemands :
              (InputError(d) = NoError /\ SumSeq(d) <= total_cars) =>
                 GreenCycleTime(Self, d) <= green_cycle_time

(***************************************************************************)
(* Properties of the connectivity manager.                                 *)
(***************************************************************************)
\* the dict the last update_connectivity_status call returned
LastStatus == returned_statuses[Len(returned_statuses)]

\* the last n entries of a sequence
LastN(seq, n) ==
    IF Len(seq) <= n THEN seq ELSE SubSeq(seq, Len(seq) - n + 1, Len(seq))

\* C27: when update_connectivity_status is given a detection endpoint and
\* the detection check fails, the call ends in offline mode: is_online is
\* False and the mode reported is offline_fallback, even with internet and
\* backend reachable.
C27_DetectionFailureIsOffline ==
    (/\ returned_statuses # <<>>
     /\ Truthy(detection_endpoint)
     /\ LastStatus.internet_available
     /\ ~LastStatus.detection_available) =>
        /\ ~is_online
        /\ ~LastStatus.is_online
        /\ LastStatus.mode = "offline_fallback"

\* C30: after any sequence of update_connectivity_status calls the history
\* holds at most max_history entries, they are the most recent statuses in
\* call order, and the newest entry's is_online and mode are those
\* get_connectivity_status and get_fallback_mode_info report.
C30_HistoryIsRecentStatuses ==
    /\ Len(connection_status_history) <= 10
    /\ connection_status_history = LastN(returned_statuses, 10)
    /\ get_connectivity_status.history_available
          = Len(connection_status_history)
    /\ connection_status_history # <<>> =>
          LET newest ==
                 connection_status_history[Len(connection_status_history)]
          IN  /\ newest.is_online = get_connectivity_status.is_online
              /\ newest.mode = get_connectivity_status.mode
              /\ newest.is_online = ~get_fallback_mode_info.fallback_mode_active

\* twelve updates, the two oldest statuses evicted, the manager offline
\* after having been online
C30_Witness ==
    /\ Len(returned_statuses) = 12
    /\ Len(connection_status_history) = 10
    /\ connection_status_history[1].timestamp = 3
    /\ connection_status_history[1].is_online
    /\ ~is_online

====
